---- MODULE Spec2Model ----
(***************************************************************************)
(* fastapi-injector: the request scope (request_scope.py).                 *)
(*                                                                         *)
(* RequestScope.cache maps a request id to the per-request dictionary      *)
(* (type -> instance, plus the AsyncExitStack when cleanup is enabled).    *)
(* _request_id_ctx is a ContextVar: every task (a coroutine on the event   *)
(* loop, or a worker thread started with a copy of the context) has its    *)
(* own value of it.  RequestScopeFactory.create_scope publishes a fresh    *)
(* id, adds the key, runs the unit of work and clears the key.             *)
(*                                                                         *)
(* RequestScope.get is synchronous code: a coroutine that is inside get    *)
(* keeps the event loop (loopOwner) until get returns, so other coroutines *)
(* cannot run in between; a worker thread is preemptive and can run at any *)
(* point.  Spec has coroutines only; SpecThreads adds worker threads.      *)
(*                                                                         *)
(* With cleanup enabled an async context manager is entered from get, which*)
(* is synchronous: on a thread with a running event loop the entry is      *)
(* submitted to the loop of a background thread (thr) and the caller       *)
(* blocks in future.result(); on a thread without one it runs inline.      *)
(***************************************************************************)
EXTENDS Integers, Sequences, FiniteSets, TLC

\* ---------------------------------------------------------------- bounds
MaxScopes == 2      \* create_scope calls in one run (uuid4 values minted)
MaxInst   == 2      \* instances the providers build in one run

Tasks == {1, 2}
Rids  == 1..MaxScopes
Unset == 0          \* ContextVar without a value

\* The bound types: a plain class, an async context manager, and a sync
\* context manager whose constructor injects AsyncCM.
Types == {"Dummy", "AsyncCM", "Nested"}

\* The connection of the request, bound by InjectConnection.
ConnKey == "HTTPConnection"
Keys == Types \cup {ConnKey}

Kind(k) ==
    CASE k = "Dummy"   -> "plain"
      [] k = ConnKey   -> "plain"
      [] k = "AsyncCM" -> "async"
      [] k = "Nested"  -> "sync"

Deps(k) == IF k = "Nested" THEN <<"AsyncCM">> ELSE <<>>

VARIABLES
    attached,   \* app.state.injector is set (attach_injector was called)
    binder,     \* injector.binder: the RequestScopeOptions binding (options)
                \* and the HTTPConnection binding (conn, NoInst: not bound)
    built,      \* the injector has instantiated RequestScope
    options,    \* RequestScope.options.enable_cleanup (read when built)
    cache,      \* RequestScope.cache: rid -> [vals, hasStack, stack]
    ctx,        \* _request_id_ctx, per task
    tstate,     \* task: "new", "coro" (on the event loop), "thread" (a worker
                \* thread, no event loop) or "loop" (on an event loop of its own)
    scopes,     \* per task: the create_scope activations, innermost last
    phase,      \* per task: "run", or how the unit of work ended (in clear_key)
    pend,       \* per task: the instance whose exit raised the exception that
                \* AsyncExitStack.aclose will raise (NoInst: none pending)
    frames,     \* per task: the RequestScope.get activations, innermost last
                \* (wait: where the activation is in _run_async, inst: the
                \* dependency it built)
    loopOwner,  \* the coroutine running synchronous code on the event loop
    thr,        \* RequestScope._thr: "unstarted", or "alive" once started
    nextRid,    \* next uuid4
    insts,      \* instances built so far -> "unentered", "entered", "exited"
                \* or "exitfailed" (its exit was run and raised)
    got,        \* history: <<rid, key, instance>>, what the lookups returned
    regLog,     \* history: rid -> instances in registration order
    relLog,     \* history: rid -> instances in release order
    ev          \* what the last step returned or raised to its caller

vars == <<attached, binder, built, options, cache, ctx, tstate, scopes, phase, pend, frames, loopOwner,
          thr, nextRid, insts, got, regLog, relLog, ev>>

\* An instance is named by the request id and the key its get activation
\* had, and by how many instances were built for them before it: two
\* provider calls never return the same object.
NoInst   == <<Unset, "none", 0>>
InstRid(i) == i[1]
InstKey(i) == i[2]
NoEv     == [op |-> "none", t |-> 0, key |-> "none", rid |-> Unset,
             res |-> NoInst, err |-> "none", how |-> "none", via |-> "none"]

EmptyDict == [vals |-> [k \in Keys |-> NoInst], hasStack |-> FALSE, stack |-> <<>>]

\* The state shared by every start: no request yet, an empty cache.
NoRequests ==
    /\ cache = <<>>
    /\ ctx = [t \in Tasks |-> Unset]
    /\ tstate = [t \in Tasks |-> "new"]
    /\ scopes = [t \in Tasks |-> <<>>]
    /\ phase = [t \in Tasks |-> "run"]
    /\ pend = [t \in Tasks |-> NoInst]
    /\ frames = [t \in Tasks |-> <<>>]
    /\ loopOwner = 0
    /\ thr = "unstarted"
    /\ nextRid = 1
    /\ insts = <<>>
    /\ got = {}
    /\ regLog = [r \in Rids |-> <<>>]
    /\ relLog = [r \in Rids |-> <<>>]
    /\ ev = NoEv

\* The application is wired: attach_injector(app, injector,
\* enable_cleanup=options) was called and RequestScope was instantiated
\* after it.
Init ==
    /\ options \in BOOLEAN
    /\ attached = TRUE
    /\ built = TRUE
    /\ binder = [options |-> options, conn |-> NoInst]
    /\ NoRequests

\* A fresh FastAPI app and a fresh Injector: nothing attached, default
\* bindings, RequestScope not instantiated yet.
InitApp ==
    /\ options = FALSE
    /\ attached = FALSE
    /\ built = FALSE
    /\ binder = [options |-> FALSE, conn |-> NoInst]
    /\ NoRequests

\* ------------------------------------------------------------- helpers
Top(s) == s[Len(s)]
Pop(s) == SubSeq(s, 1, Len(s) - 1)

\* A task can take a step: a thread always, a coroutine when no other
\* coroutine is in the middle of synchronous code on the event loop.
Ready(t) ==
    /\ tstate[t] \in {"coro", "thread", "loop"}
    /\ tstate[t] # "coro" \/ loopOwner \in {0, t}

\* The event loop after a step of t that leaves t inside synchronous code
\* (holds) or at a suspension point.
Own(t, holds) ==
    IF tstate[t] = "coro" THEN (IF holds THEN t ELSE 0) ELSE loopOwner

\* asyncio.get_running_loop() succeeds: the task is a coroutine, on the
\* event loop of the server or on an event loop run by another thread.
HasRunningLoop(t) == tstate[t] \in {"coro", "loop"}

\* Faulty variant: the LookupError of _request_id_ctx.get() is not handled.
PublishedUnchecked(t) == TRUE

\* get, line 82: _request_id_ctx.get() finds a value
Published(t) == ctx[t] # Unset

\* Faulty variant: one dict shared by all requests.
ScopeDictShared(c, rid) == c[CHOOSE r \in DOMAIN c : TRUE]

\* get: self.cache[request_id]
ScopeDict(c, rid) == c[rid]

\* Faulty variant: the exit stack is created whatever the options say.
WithStackAlways(d) == [d EXCEPT !.hasStack = TRUE]

\* get, lines 88-93: with cleanup enabled the scope's AsyncExitStack is
\* created by the first lookup in the scope.
WithStack(d) ==
    IF options /\ ~d.hasStack THEN [d EXCEPT !.hasStack = TRUE] ELSE d

\* Faulty variant: the lookup never finds the key.
CachedNever(d, k) == NoInst

\* get, lines 94-95: the cached dependency (NoInst when key is not in the dict)
Cached(d, k) == d.vals[k]

\* Faulty variant: the dependency is not kept.
StoreNothing(d, k, i) == d

\* get, line 98
Store(d, k, i) == [d EXCEPT !.vals[k] = i]

\* Faulty variant: a placeholder is stored for the key before the provider
\* is called, and stays when the provider raises.
ProviderRaisedKeepsPlaceholder(d, k) == [d EXCEPT !.vals[k] = <<Unset, k, 0>>]

\* get, lines 97-98: provider.get raised, the store of line 98 is not
\* reached and the dict of the request is as it was
ProviderRaised(d, k) == d

\* _register, lines 115-118: only context managers are entered
Registrable(k) == Kind(k) \in {"sync", "async"}

\* ExitStack: enter_context / enter_async_context push the exit callback
Push(d, i) == [d EXCEPT !.stack = Append(@, i)]

\* Faulty variant: callbacks are run in registration order.
NextToReleaseFifo(stk) == stk[1]

\* AsyncExitStack.aclose: callbacks are popped from the right
NextToRelease(stk) == stk[Len(stk)]

\* Faulty variant: the first exception is kept, later ones are dropped.
PendingFirst(old, i, out) ==
    CASE out = "raise" -> (IF old = NoInst THEN i ELSE old)
      [] out = "suppress" -> NoInst
      [] OTHER -> old

\* AsyncExitStack.aclose: a callback that raises replaces the pending
\* exception (out = "raise"), a callback that is passed the pending
\* exception and returns true clears it (out = "suppress"); the one pending
\* after the last callback is raised
Pending(old, i, out) ==
    CASE out = "raise" -> i
      [] out = "suppress" -> NoInst
      [] OTHER -> old

Without(stk, i) == SelectSeq(stk, LAMBDA x : x # i)

\* provider.get builds a new object
NewInst(rid, k) ==
    <<rid, k, 1 + Cardinality({j \in DOMAIN insts : InstRid(j) = rid /\ InstKey(j) = k})>>

\* The connection object of the request whose scope is rid.
Conn(rid) == <<rid, ConnKey, 0>>

\* provider.get: a class provider builds a new object, the InstanceProvider
\* that _sync_bind_conn bound returns the connection it was given.
Provide(rid, k) == IF k = ConnKey THEN binder.conn ELSE NewInst(rid, k)

\* Faulty variant: the AttributeError of app.state.injector is not handled.
GetInjectorInstanceUnchecked(a) == "injector"

\* get_injector_instance: app.state.injector, or InjectorNotAttached
GetInjectorInstance(a) == IF a THEN "injector" ELSE "InjectorNotAttached"

Built(i, st) == [j \in DOMAIN insts \cup {i} |-> IF j = i THEN st ELSE insts[j]]

\* add_key, line 105
AddKey(c, r) == [x \in DOMAIN c \cup {r} |-> IF x = r THEN EmptyDict ELSE c[x]]

\* clear_key, line 112
DelKey(c, r) == [x \in DOMAIN c \ {r} |-> c[x]]

\* A get activation returns to its caller: the caller is either the handler
\* or the provider of the enclosing activation, which goes on with its
\* remaining constructor arguments.
Returned(fs) ==
    IF fs = <<>> THEN <<>>
    ELSE [fs EXCEPT ![Len(fs)].pending = Tail(@)]

\* ---------------------------------------------------------------- wiring
\* attach_injector(app, injector, enable_cleanup=b), on app startup.
Attach(b) ==
    /\ UNCHANGED thr
    /\ ~attached
    /\ \A t \in Tasks : tstate[t] = "new"
    /\ attached' = TRUE
    /\ binder' = [binder EXCEPT !.options = b]
    /\ ev' = NoEv
    /\ UNCHANGED <<built, options, cache, ctx, tstate, scopes, phase, pend, frames,
                   loopOwner, nextRid, insts, got, regLog, relLog>>

\* RequestScope.__init__, run by the injector on the first use of the scope
\* (of RequestScope, RequestScopeFactory or InjectorMiddleware): the options
\* are read from the injector once.
Construct ==
    /\ UNCHANGED thr
    /\ ~built
    /\ built' = TRUE
    /\ options' = binder.options
    /\ ev' = NoEv
    /\ UNCHANGED <<attached, binder, cache, ctx, tstate, scopes, phase, pend, frames,
                   loopOwner, nextRid, insts, got, regLog, relLog>>

\* _sync_bind_conn / _bind_conn, the InjectConnection dependency of a
\* request: the request's connection is bound on the injector the app shares.
BindConn(t) ==
    /\ UNCHANGED thr
    /\ Ready(t) /\ HasRunningLoop(t)
    /\ phase[t] = "run" /\ frames[t] = <<>>
    /\ Len(scopes[t]) = 1 /\ ctx[t] = Top(scopes[t]).rid
    /\ GetInjectorInstance(attached) = "injector"
    /\ binder' = [binder EXCEPT !.conn = Conn(ctx[t])]
    /\ scopes' = [scopes EXCEPT ![t][1].bound = TRUE]
    /\ ev' = NoEv
    /\ UNCHANGED <<attached, built, options, cache, ctx, tstate, phase, pend,
                   frames, loopOwner, nextRid, insts, got, regLog, relLog>>

\* ----------------------------------------------------------------- tasks
\* A new request starts on the event loop with an empty context.
Start(t) ==
    /\ UNCHANGED thr
    /\ tstate[t] = "new"
    /\ \A u \in Tasks : u < t => tstate[u] # "new"
    /\ tstate' = [tstate EXCEPT ![t] = "coro"]
    /\ ev' = NoEv
    /\ UNCHANGED <<attached, binder, built, options, cache, ctx, scopes, phase, pend, frames, loopOwner,
                   nextRid, insts, got, regLog, relLog>>

\* A request starts on an event loop that another thread of the process
\* runs (a second server loop, a test client's portal), with an empty context.
StartLoop(t) ==
    /\ tstate[t] = "new"
    /\ \A u \in Tasks : u < t => tstate[u] # "new"
    /\ tstate' = [tstate EXCEPT ![t] = "loop"]
    /\ ev' = NoEv
    /\ UNCHANGED <<attached, binder, built, options, cache, ctx, scopes, phase, pend, frames, loopOwner,
                   thr, nextRid, insts, got, regLog, relLog>>

\* Faulty variant: the child starts with an empty context.
CopyContextEmpty(v) == Unset

\* contextvars: the value of _request_id_ctx in a copy of the context
CopyContext(v) == v

\* Handler code spawns a child that starts with a copy of the context:
\* asyncio.create_task (kind "coro") or asyncio.to_thread (kind "thread").
Fork(p, c, kind) ==
    /\ UNCHANGED thr
    /\ Ready(p) /\ phase[p] = "run" /\ frames[p] = <<>>
    /\ tstate[p] = "coro"
    /\ ctx[p] # Unset
    /\ tstate[c] = "new"
    /\ \A u \in Tasks : u < c => tstate[u] # "new"
    /\ tstate' = [tstate EXCEPT ![c] = kind]
    /\ ctx' = [ctx EXCEPT ![c] = CopyContext(ctx[p])]
    /\ ev' = [NoEv EXCEPT !.op = "fork", !.t = c, !.rid = ctx[p]]
    /\ UNCHANGED <<attached, binder, built, options, cache, scopes, phase, pend, frames, loopOwner,
                   nextRid, insts, got, regLog, relLog>>

ForkTask(p, c) == Fork(p, c, "coro")

ForkThread(p, c) == Fork(p, c, "thread")

\* -------------------------------------------------- RequestScopeFactory
\* create_scope, lines 158-160
OpenScope(t) ==
    /\ UNCHANGED thr
    /\ built
    /\ Ready(t) /\ HasRunningLoop(t)
    /\ phase[t] = "run" /\ frames[t] = <<>>
    /\ nextRid <= MaxScopes
    /\ LET rid == nextRid IN
        /\ nextRid' = nextRid + 1
        /\ ctx' = [ctx EXCEPT ![t] = rid]
        /\ cache' = AddKey(cache, rid)
        /\ scopes' = [scopes EXCEPT ![t] =
                        Append(@, [rid |-> rid, token |-> ctx[t], bound |-> FALSE])]
    /\ ev' = NoEv
    /\ UNCHANGED <<attached, binder, built, options, tstate, phase, pend, frames, loopOwner,
                   insts, got, regLog, relLog>>

\* RequestScope.add_key called directly (it is a public method of the scope
\* the injector hands out) with an id that create_scope minted earlier.
AddKeyCall(t, r) ==
    /\ UNCHANGED thr
    /\ built
    /\ Ready(t) /\ HasRunningLoop(t)
    /\ phase[t] = "run" /\ frames[t] = <<>>
    /\ r < nextRid
    /\ cache' = AddKey(cache, r)
    /\ ev' = [NoEv EXCEPT !.op = "add_key", !.t = t, !.rid = r]
    /\ UNCHANGED <<attached, binder, built, options, ctx, tstate, scopes, phase, pend,
                   frames, loopOwner, nextRid, insts, got, regLog, relLog>>

\* ---------------------------------------------------------- RequestScope
\* An exception leaves get: it unwinds every activation of the task (an
\* inner get was called by the provider of the outer one, which has no
\* handler) and reaches the handler code.
Raise(t, k, rid, err) ==
    /\ frames' = [frames EXCEPT ![t] = <<>>]
    /\ ev' = [NoEv EXCEPT !.op = "get", !.t = t, !.key = k, !.rid = rid,
                          !.err = err]
    /\ loopOwner' = Own(t, FALSE)

\* get returns InstanceProvider(dependency) to its caller (via: how an
\* async context manager was entered, "none" when none was).
ReturnVia(t, k, rid, i, how, via) ==
    /\ got' = got \cup {<<rid, k, i>>}
    /\ ev' = [NoEv EXCEPT !.op = "get", !.t = t, !.key = k, !.rid = rid,
                          !.res = i, !.how = how, !.via = via]

Return(t, k, rid, i, how) == ReturnVia(t, k, rid, i, how, "none")

\* get, lines 81-97: read the request id, fetch or create the exit stack,
\* look the key up; on a miss the provider is called (line 97) and the
\* activation stays open until the provider returns.  The caller is the
\* handler code through Injected (get_injector_instance(conn.app).get), or
\* the provider of the enclosing activation resolving its next constructor
\* argument.  InjectConnection is a dependency of the app, resolved before
\* the dependencies of the route: a request looks its connection up after
\* it has bound it.
GetBegin(t, k) ==
    /\ UNCHANGED thr
    /\ Ready(t) /\ phase[t] = "run"
    /\ built \/ (frames[t] = <<>> /\ ~attached)
    /\ k = ConnKey => scopes[t] # <<>> /\ scopes[t][1].bound
    /\ \/ frames[t] = <<>>
       \/ /\ frames[t] # <<>>
          /\ Top(frames[t]).pending # <<>>
          /\ k = Head(Top(frames[t]).pending)
    /\ LET rid == ctx[t] IN
       IF frames[t] = <<>> /\ GetInjectorInstance(attached) # "injector" THEN
            /\ Raise(t, k, rid, GetInjectorInstance(attached))
            /\ UNCHANGED <<cache, got>>
       ELSE IF ~Published(t) THEN
            /\ Raise(t, k, rid, "RequestScopeError")
            /\ UNCHANGED <<cache, got>>
       ELSE IF rid \notin DOMAIN cache THEN
            /\ Raise(t, k, rid, "KeyError")
            /\ UNCHANGED <<cache, got>>
       ELSE LET d == WithStack(ScopeDict(cache, rid)) IN
            /\ cache' = [cache EXCEPT ![rid] = d]
            /\ IF Cached(d, k) # NoInst THEN
                    /\ Return(t, k, rid, Cached(d, k), "cached")
                    /\ frames' = [frames EXCEPT ![t] = Returned(@)]
                    /\ loopOwner' = Own(t, frames[t] # <<>>)
               ELSE
                    /\ frames' = [frames EXCEPT ![t] =
                            Append(@, [key |-> k, rid |-> rid, reg |-> d.hasStack,
                                       pending |-> Deps(k), wait |-> "no",
                                       inst |-> NoInst])]
                    /\ loopOwner' = Own(t, TRUE)
                    /\ ev' = NoEv
                    /\ UNCHANGED got
    /\ UNCHANGED <<attached, binder, built, options, ctx, tstate, scopes, phase, pend, nextRid, insts, regLog,
                   relLog>>

\* Faulty variant: the entry runs inline when a loop is running, and on
\* the background thread when none is.
BridgePathSwapped(running) == IF running THEN "inline" ELSE "worker"

\* _enter_async_context, lines 126-133: with a running event loop the entry
\* is handed to the background thread (_run_async), without one it runs on
\* a new event loop in the calling thread (asyncio.run).
BridgePath(running) == IF running THEN "worker" ELSE "inline"

\* How _register enters a dependency of type k for task t: "direct"
\* (enter_context), "inline", "worker", or "none" (not a context manager).
EnterVia(t, k) ==
    CASE Kind(k) = "sync"  -> "direct"
      [] Kind(k) = "async" -> BridgePath(HasRunningLoop(t))
      [] OTHER -> "none"

\* get, lines 97-101: the provider returns (or raises); the dependency is
\* stored and, with an exit stack, registered: _register enters a context
\* manager and pushes its exit on the stack; __enter__ / __aenter__ can raise.
\* An async context manager entered through _run_async leaves the
\* activation open: line 138 has read _thr.is_alive(), and the activation
\* goes on to start the thread (wait "start") or, the thread being alive,
\* has submitted the entry and blocks in future.result() (wait "submitted").
GetFinish(t) ==
    /\ Ready(t) /\ phase[t] = "run"
    /\ frames[t] # <<>>
    /\ Top(frames[t]).pending = <<>>
    /\ Top(frames[t]).wait = "no"
    /\ UNCHANGED thr
    /\ LET f == Top(frames[t])
           k == f.key
           rid == f.rid
           i == Provide(rid, k)
       IN  \/ \* provider.get raises (a class provider: the constructor fails)
              /\ k \in Types
              /\ Raise(t, k, rid, "ProviderError")
              /\ cache' = IF rid \in DOMAIN cache
                          THEN [cache EXCEPT ![rid] = ProviderRaised(@, k)]
                          ELSE cache
              /\ UNCHANGED <<insts, got, regLog>>
           \/ \* provider.get returns the instance
              /\ i \in DOMAIN insts \/ Cardinality(DOMAIN insts) < MaxInst
              /\ IF rid \notin DOMAIN cache THEN
                      \* line 98: the request's dict was deleted meanwhile
                      /\ insts' = Built(i, "unentered")
                      /\ Raise(t, k, rid, "KeyError")
                      /\ UNCHANGED <<cache, got, regLog>>
                 ELSE IF f.reg /\ EnterVia(t, k) = "worker" THEN
                      /\ insts' = Built(i, "unentered")
                      /\ cache' = [cache EXCEPT ![rid] = Store(@, k, i)]
                      /\ frames' = [frames EXCEPT ![t][Len(frames[t])] =
                              [@ EXCEPT !.inst = i,
                                        !.wait = IF thr = "alive" THEN "submitted"
                                                 ELSE "start"]]
                      /\ loopOwner' = Own(t, TRUE)
                      /\ ev' = NoEv
                      /\ UNCHANGED <<got, regLog>>
                 ELSE IF f.reg /\ Registrable(k) THEN
                      \/ \* entered
                         /\ insts' = Built(i, "entered")
                         /\ cache' = [cache EXCEPT ![rid] = Push(Store(@, k, i), i)]
                         /\ regLog' = [regLog EXCEPT ![rid] = Append(@, i)]
                         /\ ReturnVia(t, k, rid, i, "produced", EnterVia(t, k))
                         /\ frames' = [frames EXCEPT ![t] = Returned(Pop(@))]
                         /\ loopOwner' = Own(t, Len(frames[t]) > 1)
                      \/ \* __enter__ / __aenter__ raises
                         /\ insts' = Built(i, "unentered")
                         /\ cache' = [cache EXCEPT ![rid] = Store(@, k, i)]
                         /\ Raise(t, k, rid, "EnterError")
                         /\ UNCHANGED <<got, regLog>>
                 ELSE
                      /\ insts' = Built(i, "unentered")
                      /\ cache' = [cache EXCEPT ![rid] = Store(@, k, i)]
                      /\ Return(t, k, rid, i, "produced")
                      /\ frames' = [frames EXCEPT ![t] = Returned(Pop(@))]
                      /\ loopOwner' = Own(t, Len(frames[t]) > 1)
                      /\ UNCHANGED regLog
    /\ UNCHANGED <<attached, binder, built, options, ctx, tstate, scopes, phase, pend, nextRid, relLog>>

\* _run_async, lines 139-140: is_alive() was false at line 138, so the
\* thread is started and the entry is submitted to its loop.  If another
\* thread has started it in between, Thread.start either raises RuntimeError
\* ("threads can only be started once") or, when both calls are inside
\* start at once, starts a second thread on the same loop.
StartWorker(t) ==
    /\ Ready(t) /\ phase[t] = "run"
    /\ frames[t] # <<>> /\ Top(frames[t]).wait = "start"
    /\ LET f == Top(frames[t]) IN
       \/ /\ thr' = "alive"
          /\ frames' = [frames EXCEPT ![t][Len(frames[t])].wait = "submitted"]
          /\ ev' = [NoEv EXCEPT !.op = "start", !.t = t, !.rid = f.rid,
                                !.how = thr]
          /\ UNCHANGED loopOwner
       \/ /\ thr = "alive"
          /\ Raise(t, f.key, f.rid, "RuntimeError")
          /\ UNCHANGED thr
    /\ UNCHANGED <<attached, binder, built, options, cache, ctx, tstate, scopes, phase,
                   pend, nextRid, insts, got, regLog, relLog>>

\* The background thread's loop runs stack.enter_async_context(obj):
\* __aenter__ returns and the exit is pushed on the stack, or it raises;
\* either way the future of line 140 is done.
WorkerRun(t) ==
    /\ thr = "alive"
    /\ frames[t] # <<>> /\ Top(frames[t]).wait = "submitted"
    /\ LET f == Top(frames[t])
           i == f.inst
       IN  \/ /\ insts' = Built(i, "entered")
              /\ cache' = IF f.rid \in DOMAIN cache
                          THEN [cache EXCEPT ![f.rid] = Push(@, i)]
                          ELSE cache
              /\ regLog' = [regLog EXCEPT ![f.rid] = Append(@, i)]
              /\ frames' = [frames EXCEPT ![t][Len(frames[t])].wait = "done"]
           \/ /\ frames' = [frames EXCEPT ![t][Len(frames[t])].wait = "failed"]
              /\ UNCHANGED <<insts, cache, regLog>>
    /\ ev' = NoEv
    /\ UNCHANGED <<attached, binder, built, options, ctx, tstate, scopes, phase, pend,
                   loopOwner, thr, nextRid, got, relLog>>

\* _run_async, line 141, and get, line 101: future.result() returns, or
\* raises what the entry raised, to the thread that was blocked in it.
GetResume(t) ==
    /\ Ready(t) /\ phase[t] = "run"
    /\ frames[t] # <<>> /\ Top(frames[t]).wait \in {"done", "failed"}
    /\ LET f == Top(frames[t]) IN
       IF f.wait = "done" THEN
            /\ ReturnVia(t, f.key, f.rid, f.inst, "produced", "worker")
            /\ frames' = [frames EXCEPT ![t] = Returned(Pop(@))]
            /\ loopOwner' = Own(t, Len(frames[t]) > 1)
       ELSE
            /\ Raise(t, f.key, f.rid, "EnterError")
            /\ UNCHANGED got
    /\ UNCHANGED <<attached, binder, built, options, cache, ctx, tstate, scopes, phase,
                   pend, thr, nextRid, insts, regLog, relLog>>

\* ------------------------------------------------------------- teardown
\* create_scope, lines 161-164: the unit of work ends (how: it returned
\* "ok", raised "error", or was cancelled "cancel"); the finally block calls
\* clear_key, which reads the exit stack (line 109) and starts aclose.
BeginClose(t, how) ==
    /\ UNCHANGED thr
    /\ Ready(t) /\ HasRunningLoop(t)
    /\ phase[t] = "run" /\ frames[t] = <<>>
    /\ scopes[t] # <<>>
    /\ phase' = [phase EXCEPT ![t] = how]
    /\ pend' = [pend EXCEPT ![t] = NoInst]
    /\ loopOwner' = Own(t, TRUE)
    /\ ev' = NoEv
    /\ UNCHANGED <<attached, binder, built, options, cache, ctx, tstate, scopes, frames, nextRid,
                   insts, got, regLog, relLog>>

\* Faulty variant: the callbacks are passed the exception that ended the
\* unit of work, as `async with stack:` around it would.
ExcInfoFromWork(how, p) ==
    IF p # NoInst THEN "CleanupError"
    ELSE CASE how = "ok" -> "none"
           [] how = "error" -> "WorkError"
           [] how = "cancel" -> "CancelledError"

\* AsyncExitStack.aclose: the exception details an exit callback is passed.
\* aclose starts from (None, None, None) whatever ended the unit of work
\* (how); after a callback has raised, the next ones are passed that
\* exception (p: the instance whose exit raised it).
ExcInfo(how, p) == IF p # NoInst THEN "CleanupError" ELSE "none"

\* clear_key, line 111: aclose pops one exit callback and runs it.  A
\* callback that raises does not stop the loop: the exception is kept and
\* raised after the last callback, unless a later callback suppresses it.
\* An async __aexit__ can suspend.
ReleaseOne(t) ==
    /\ UNCHANGED thr
    /\ Ready(t) /\ phase[t] # "run"
    /\ LET rid == Top(scopes[t]).rid
           d == cache[rid]
       IN  /\ rid \in DOMAIN cache
           /\ d.hasStack /\ d.stack # <<>>
           /\ LET i == NextToRelease(d.stack) IN
              \E out \in {"ok", "raise", "suppress"} :
                /\ out = "suppress" => ExcInfo(phase[t], pend[t]) # "none"
                /\ ev' = [NoEv EXCEPT !.op = "release", !.t = t, !.rid = rid,
                                      !.res = i, !.how = phase[t],
                                      !.err = ExcInfo(phase[t], pend[t])]
                /\ cache' = [cache EXCEPT ![rid].stack = Without(@, i)]
                /\ insts' = [insts EXCEPT ![i] =
                                IF out = "raise" THEN "exitfailed" ELSE "exited"]
                /\ relLog' = [relLog EXCEPT ![rid] = Append(@, i)]
                /\ pend' = [pend EXCEPT ![t] = Pending(@, i, out)]
                /\ loopOwner' = Own(t, Kind(InstKey(i)) # "async")
    /\ UNCHANGED <<attached, binder, built, options, ctx, tstate, scopes, phase, frames, nextRid, got,
                   regLog>>

\* The dict of the request is gone: its instances can no longer be looked
\* up, and the model drops what it recorded about them.
Forget(rid) ==
    /\ insts' = [j \in {x \in DOMAIN insts : InstRid(x) # rid} |-> insts[j]]
    /\ got' = {g \in got : g[1] # rid}
    /\ regLog' = [regLog EXCEPT ![rid] = <<>>]
    /\ relLog' = [relLog EXCEPT ![rid] = <<>>]

\* What leaves create_scope: the exception aclose raised, else the one that
\* ended the unit of work.
Surfaced(how, p) ==
    IF p # NoInst THEN "CleanupError"
    ELSE CASE how = "ok" -> "none"
           [] how = "error" -> "WorkError"
           [] how = "cancel" -> "CancelledError"

\* clear_key, lines 111-112: aclose is done.  If it raises, del
\* self.cache[key] and _request_id_ctx.reset are skipped and the exception
\* leaves create_scope; else the dict of the request is deleted, and the
\* task goes on to line 165 without a suspension point.
FinishClose(t) ==
    /\ UNCHANGED thr
    /\ Ready(t) /\ phase[t] # "run"
    /\ LET rid == Top(scopes[t]).rid
           d == cache[rid]
       IN  /\ rid \in DOMAIN cache
           /\ ~d.hasStack \/ d.stack = <<>>
           /\ IF pend[t] = NoInst THEN
                  /\ cache' = DelKey(cache, rid)
                  /\ Forget(rid)
                  /\ ev' = NoEv
                  /\ loopOwner' = Own(t, TRUE)
                  /\ UNCHANGED <<scopes, phase>>
              ELSE
                  /\ ev' = [NoEv EXCEPT !.op = "exit", !.t = t, !.rid = rid,
                                        !.how = phase[t], !.res = pend[t],
                                        !.err = Surfaced(phase[t], pend[t])]
                  /\ scopes' = [scopes EXCEPT ![t] = Pop(@)]
                  /\ phase' = [phase EXCEPT ![t] = "run"]
                  /\ loopOwner' = Own(t, FALSE)
                  /\ UNCHANGED <<cache, insts, got, regLog, relLog>>
    /\ pend' = [pend EXCEPT ![t] = NoInst]
    /\ UNCHANGED <<attached, binder, built, options, ctx, tstate, frames, nextRid>>

\* create_scope, line 165: clear_key has returned; the request id is reset
\* to what it was when the scope was opened, and the exception that ended
\* the unit of work (if any) leaves create_scope.
ExitScope(t) ==
    /\ UNCHANGED thr
    /\ Ready(t) /\ phase[t] # "run"
    /\ LET rid == Top(scopes[t]).rid IN
        /\ rid \notin DOMAIN cache
        /\ ctx' = [ctx EXCEPT ![t] = Top(scopes[t]).token]
        /\ ev' = [NoEv EXCEPT !.op = "exit", !.t = t, !.rid = rid,
                              !.how = phase[t],
                              !.err = Surfaced(phase[t], NoInst)]
    /\ scopes' = [scopes EXCEPT ![t] = Pop(@)]
    /\ phase' = [phase EXCEPT ![t] = "run"]
    /\ loopOwner' = Own(t, FALSE)
    /\ UNCHANGED <<attached, binder, built, options, cache, tstate, pend, frames, nextRid, insts, got,
                   regLog, relLog>>

\* ------------------------------------------------------- specifications
Next ==
    \/ \E t \in Tasks : Start(t)
    \/ \E p, c \in Tasks : ForkTask(p, c)
    \/ \E t \in Tasks : OpenScope(t)
    \/ \E t \in Tasks, k \in Types : GetBegin(t, k)
    \/ \E t \in Tasks : GetFinish(t)
    \/ \E t \in Tasks : StartWorker(t)
    \/ \E t \in Tasks : WorkerRun(t)
    \/ \E t \in Tasks : GetResume(t)
    \/ \E t \in Tasks, how \in {"ok", "error"} : BeginClose(t, how)
    \/ \E t \in Tasks : ReleaseOne(t)
    \/ \E t \in Tasks : FinishClose(t)
    \/ \E t \in Tasks : ExitScope(t)

\* Coroutines on one event loop; a unit of work returns or raises.
Spec == Init /\ [][Next]_vars

\* Coroutines on one event loop whose unit of work can also be cancelled.
NextCancel ==
    \/ Next
    \/ \E t \in Tasks : BeginClose(t, "cancel")

SpecCancel == Init /\ [][NextCancel]_vars

\* The background thread runs what is submitted to its loop, and a thread
\* blocked in future.result() goes on when the future is done.
SpecLive ==
    /\ Spec
    /\ \A t \in Tasks : WF_vars(WorkerRun(t)) /\ WF_vars(GetResume(t))

\* Coroutines, and lookups made from worker threads.
NextThreads ==
    \/ Next
    \/ \E p, c \in Tasks : ForkThread(p, c)

SpecThreads == Init /\ [][NextThreads]_vars

\* Requests served by more than one event loop, each loop in its own thread.
NextLoops ==
    \/ Next
    \/ \E t \in Tasks : StartLoop(t)

SpecLoops == Init /\ [][NextLoops]_vars

\* Lookups of an async context manager from coroutines of the event loop
\* and from worker threads started with a copy of the context.
NextBridge ==
    \/ \E t \in Tasks : Start(t)
    \/ \E p, c \in Tasks : ForkThread(p, c)
    \/ \E t \in Tasks : OpenScope(t)
    \/ \E t \in Tasks : GetBegin(t, "AsyncCM")
    \/ \E t \in Tasks : GetFinish(t)
    \/ \E t \in Tasks : StartWorker(t)
    \/ \E t \in Tasks : WorkerRun(t)
    \/ \E t \in Tasks : GetResume(t)
    \/ \E t \in Tasks : BeginClose(t, "ok")
    \/ \E t \in Tasks : ReleaseOne(t)
    \/ \E t \in Tasks : FinishClose(t)
    \/ \E t \in Tasks : ExitScope(t)

SpecBridge == Init /\ [][NextBridge]_vars

\* The application from its start: attach_injector and the first use of the
\* scope in either order, then requests that bind and look up their
\* connection and an async context manager.
NextApp ==
    \/ \E b \in BOOLEAN : Attach(b)
    \/ Construct
    \/ \E t \in Tasks : Start(t)
    \/ \E t \in Tasks : OpenScope(t)
    \/ \E t \in Tasks : BindConn(t)
    \/ \E t \in Tasks, k \in {ConnKey, "AsyncCM"} : GetBegin(t, k)
    \/ \E t \in Tasks : GetFinish(t)
    \/ \E t \in Tasks : StartWorker(t)
    \/ \E t \in Tasks : WorkerRun(t)
    \/ \E t \in Tasks : GetResume(t)
    \/ \E t \in Tasks : BeginClose(t, "ok")
    \/ \E t \in Tasks : ReleaseOne(t)
    \/ \E t \in Tasks : FinishClose(t)
    \/ \E t \in Tasks : ExitScope(t)

SpecApp == InitApp /\ [][NextApp]_vars

\* Requests on one event loop whose code also calls add_key itself.
NextKeys ==
    \/ Next
    \/ \E t \in Tasks, r \in Rids : AddKeyCall(t, r)

SpecKeys == Init /\ [][NextKeys]_vars

\* ================================================================ claims
BuiltFor(rid, k) == {i \in DOMAIN insts : InstRid(i) = rid /\ InstKey(i) = k}

\* The get activations of a scope and type whose provider call is under way.
OpenFrames(rid, k) ==
    UNION {{<<t, n>> : n \in {m \in 1..Len(frames[t]) :
                                /\ frames[t][m].rid = rid /\ frames[t][m].key = k
                                /\ frames[t][m].wait = "no"}} : t \in Tasks}

\* C1: within one open scope, any two lookups of the same type return the
\* identical instance, whatever lookups were made in between: all the
\* lookups of a type that returned in a scope returned one instance, and a
\* lookup that returns now returns that instance.
C1_SameInstanceInScope ==
    /\ \A g1, g2 \in got : g1[1] = g2[1] /\ g1[2] = g2[2] => g1[3] = g2[3]
    /\ ev.op = "get" /\ ev.res # NoInst => <<ev.rid, ev.key, ev.res>> \in got

\* A lookup returned the cached instance of a scope in which another type
\* was looked up as well.
C1_Witness ==
    /\ ev.op = "get" /\ ev.how = "cached" /\ ev.res # NoInst
    /\ \E g \in got : g[1] = ev.rid /\ g[2] # ev.key

\* C2: a lookup in one scope never returns the instance produced for that
\* type in another scope: every instance a lookup returns was built by a
\* provider call made for the scope and type of the lookup, so lookups of
\* distinct scopes have no instance in common.
C2_NoSharingAcrossScopes ==
    /\ \A g \in got : InstRid(g[3]) = g[1] /\ InstKey(g[3]) = g[2]
    /\ \A g1, g2 \in got : g1[1] # g2[1] => g1[3] # g2[3]

\* Two scopes are open at once and a lookup of the same type returned in both.
C2_Witness ==
    \E g1, g2 \in got :
        /\ g1[1] # g2[1] /\ g1[2] = g2[2]
        /\ {g1[1], g2[1]} \subseteq DOMAIN cache
        /\ \E t1, t2 \in Tasks : t1 # t2 /\ ctx[t1] = g1[1] /\ ctx[t2] = g2[1]

\* C3: a lookup made with no request id published fails with
\* RequestScopeError, does not call the provider and leaves the cache as it
\* was.
C3_NoScopeFails ==
    /\ [](/\ ev.op = "get" /\ ev.rid = Unset => ev.err = "RequestScopeError"
          /\ \A g \in got : g[1] # Unset
          /\ \A t \in Tasks : \A n \in 1..Len(frames[t]) : frames[t][n].rid # Unset
          /\ \A i \in DOMAIN insts : InstRid(i) # Unset)
    /\ [][ev'.op = "get" /\ ev'.rid = Unset
            => cache' = cache /\ insts' = insts /\ got' = got]_vars

\* A lookup without a published id failed while another request had a
\* cached instance.
C3_Witness ==
    /\ ev.op = "get" /\ ev.rid = Unset /\ ev.err = "RequestScopeError"
    /\ \E r \in DOMAIN cache : \E k \in Types : cache[r].vals[k] # NoInst

\* ------------------------------------------------- C4 .. C10: teardown
Range(s) == {s[n] : n \in 1..Len(s)}

Reverse(s) == [n \in 1..Len(s) |-> s[Len(s) + 1 - n]]

\* The task is in clear_key and its exit stack has no callback left.
Flushed(t) ==
    /\ phase[t] # "run"
    /\ Top(scopes[t]).rid \in DOMAIN cache
    /\ cache[Top(scopes[t]).rid].stack = <<>>

\* The instances of a scope whose exit raised, in release order.
FailedIn(rid) == SelectSeq(relLog[rid], LAMBDA x : insts[x] = "exitfailed")

\* The registered instances of a scope not released yet, in registration order.
Unreleased(rid) == SelectSeq(regLog[rid], LAMBDA x : x \notin Range(relLog[rid]))

\* C4: after a scope closes the cache has no entry for its id, and once
\* every opened scope has closed the cache is empty again.
C4_CacheEmptyAfterClose ==
    /\ ev.op = "exit" => ev.rid \notin DOMAIN cache
    /\ (\A t \in Tasks : scopes[t] = <<>>) => DOMAIN cache = {}

\* C5: cleanup gating.  With enable_cleanup false no instance is ever
\* entered or exited and no exit stack exists; with enable_cleanup true a
\* context manager is entered when the lookup that produced it returns, an
\* entered instance is on the exit stack of its scope, and when the close
\* of the scope has run the stack down every registered instance was exited.
C5_CleanupGating ==
    /\ ~options =>
         /\ \A i \in DOMAIN insts : insts[i] = "unentered"
         /\ \A r \in DOMAIN cache : ~cache[r].hasStack /\ cache[r].stack = <<>>
         /\ \A r \in Rids : regLog[r] = <<>> /\ relLog[r] = <<>>
    /\ options =>
         /\ ev.op = "get" /\ ev.how = "produced" /\ Registrable(ev.key)
              => insts[ev.res] = "entered" /\ ev.res \in Range(regLog[ev.rid])
         /\ \A i \in DOMAIN insts : insts[i] = "entered"
              => InstRid(i) \in DOMAIN cache /\ i \in Range(cache[InstRid(i)].stack)
         /\ \A t \in Tasks : Flushed(t)
              => \A i \in Range(regLog[Top(scopes[t]).rid]) :
                    insts[i] \in {"exited", "exitfailed"}

\* Cleanup is enabled and the close of a scope has exited a sync and an
\* async context manager.
C5_Witness ==
    /\ options
    /\ \E t \in Tasks :
        /\ Flushed(t)
        /\ \E i, j \in Range(relLog[Top(scopes[t]).rid]) :
              Kind(InstKey(i)) = "sync" /\ Kind(InstKey(j)) = "async"

\* C6: when the unit of work ends by an error or by cancellation, teardown
\* still runs: when create_scope is left, no instance of the scope is still
\* entered, the cache entry is gone and the id is no longer published.
C6_TeardownOnErrorOrCancel ==
    ev.op = "exit" /\ ev.how \in {"error", "cancel"} =>
        /\ \A i \in DOMAIN insts : InstRid(i) = ev.rid => insts[i] # "entered"
        /\ ev.rid \notin DOMAIN cache
        /\ ctx[ev.t] # ev.rid

\* C7: sequential lookups of a type in an open scope call the provider
\* once: for a scope and a type there is at most one provider call, made or
\* under way; once the value is stored no call is under way, and a lookup
\* that finds the value returns it without a call.
C7_ProviderOncePerScope ==
    /\ [](\A r \in DOMAIN cache : \A k \in Types :
            /\ Cardinality(BuiltFor(r, k)) + Cardinality(OpenFrames(r, k)) <= 1
            /\ cache[r].vals[k] # NoInst
                 => OpenFrames(r, k) = {} /\ BuiltFor(r, k) = {cache[r].vals[k]})
    /\ [][ev'.op = "get" /\ ev'.how = "cached"
            => insts' = insts /\ ev'.res = cache[ev'.rid].vals[ev'.key]]_vars

\* A lookup returned the stored value of a type whose provider ran once.
C7_Witness ==
    /\ ev.op = "get" /\ ev.how = "cached"
    /\ BuiltFor(ev.rid, ev.key) = {ev.res}
    /\ \A t \in Tasks : frames[t] = <<>>

\* C8: concurrent lookups of a type in a scope never call the provider more
\* than once, and all of them return the same instance.
C8_NoDoubleInvoke ==
    /\ \A r \in DOMAIN cache : \A k \in Types :
         Cardinality(BuiltFor(r, k)) <= 1
    /\ \A g1, g2 \in got : g1[1] = g2[1] /\ g1[2] = g2[2] => g1[3] = g2[3]

\* C9 as stated: when the close of a scope has run the stack down, the
\* release order is the exact reverse of the registration order.
C9_ExactReverseOrder ==
    \A t \in Tasks : Flushed(t) =>
        relLog[Top(scopes[t]).rid] = Reverse(regLog[Top(scopes[t]).rid])

\* C9 amended: every release takes the most recently registered instance
\* that has not been released yet; resources registered before the close
\* began are thus released in the reverse of their registration order.
C9_LifoRelease ==
    [][\A r \in Rids :
          relLog'[r] # relLog[r] /\ relLog'[r] # <<>>
            => /\ Unreleased(r) # <<>>
               /\ relLog'[r] = Append(relLog[r], Top(Unreleased(r)))]_vars

\* The close of a scope released a sync and an async resource, the one
\* registered last first.
C9_Witness ==
    \E t \in Tasks :
        /\ Flushed(t)
        /\ Len(regLog[Top(scopes[t]).rid]) = 2
        /\ relLog[Top(scopes[t]).rid] = Reverse(regLog[Top(scopes[t]).rid])

\* C10 as stated: every registered resource is attempted and the failure
\* that leaves the teardown is the first one.
C10_FirstFailureSurfaces ==
    ev.op = "exit" /\ ev.err = "CleanupError" =>
        /\ Range(regLog[ev.rid]) \subseteq Range(relLog[ev.rid])
        /\ FailedIn(ev.rid) # <<>>
        /\ ev.res = Head(FailedIn(ev.rid))

\* C10 amended: every registered resource is attempted, and the failure
\* that leaves the teardown is the one of the last release that failed; a
\* failure of the last release of all always leaves the teardown.
C10_LastFailureSurfaces ==
    /\ ev.op = "exit" /\ ev.err = "CleanupError" =>
         /\ Range(regLog[ev.rid]) \subseteq Range(relLog[ev.rid])
         /\ FailedIn(ev.rid) # <<>>
         /\ ev.res = Top(FailedIn(ev.rid))
    /\ \A t \in Tasks : Flushed(t) =>
         LET r == Top(scopes[t]).rid IN
         /\ Range(regLog[r]) \subseteq Range(relLog[r])
         /\ pend[t] # NoInst => FailedIn(r) # <<>> /\ pend[t] = Top(FailedIn(r))
         /\ relLog[r] # <<>> /\ insts[Top(relLog[r])] = "exitfailed"
              => pend[t] = Top(relLog[r])

\* Two releases failed in one close and the teardown raised.
C10_Witness ==
    /\ ev.op = "exit" /\ ev.err = "CleanupError"
    /\ Len(FailedIn(ev.rid)) = 2

\* ------------------------------------------------------------ C11 .. C20
\* C11: nothing outlives the scope on any exit path: when create_scope is
\* left (normally, by a failure of the unit of work, or by a failure raised
\* by a release) the cache has no entry for the scope's id and the task's
\* published id is what it was before the scope was opened.
C11_NothingOutlivesScope ==
    [][ev'.op = "exit"
         => /\ ev'.rid \notin DOMAIN cache'
            /\ ctx'[ev'.t] = Top(scopes[ev'.t]).token]_vars

\* C12: when the provider raises, the error reaches the caller of the
\* lookup, nothing is stored for the type (nor for a type whose provider
\* was waiting for it) and no instance is recorded; the next lookup of the
\* type in the scope does not find a stored value, it calls the provider.
C12_ProviderFailure ==
    /\ [][ev'.op = "get" /\ ev'.err = "ProviderError" =>
            /\ cache' = cache /\ insts' = insts /\ got' = got
            /\ \A t \in Tasks : frames'[t] = <<>>
            /\ \A t \in Tasks : \A n \in 1..Len(frames[t]) :
                  cache'[frames[t][n].rid].vals[frames[t][n].key] = NoInst]_vars
    /\ [][ev.op = "get" /\ ev.err = "ProviderError" =>
            ~(/\ ev'.op = "get" /\ ev'.how = "cached"
              /\ ev'.rid = ev.rid /\ ev'.key = ev.key)]_vars

\* The provider of a type failed after the value it depends on was
\* produced and stored.
C12_Witness ==
    /\ ev.op = "get" /\ ev.err = "ProviderError" /\ ev.key = "Nested"
    /\ cache[ev.rid].vals["AsyncCM"] # NoInst

\* The types that are constructor arguments of another type.
DepTypes == {k \in Types : \E y \in Types : k \in Range(Deps(y))}

\* C13: re-entrant resolution.  A lookup of a type X that another type Y
\* injects, made by Y's provider or directly, returns the one instance the
\* scope stores for X, the same as every earlier lookup of X in the scope,
\* and X's provider ran once; a Y that was built received that X.
C13_ReentrantResolution ==
    /\ ev.op = "get" /\ ev.res # NoInst /\ ev.key \in DepTypes =>
         /\ ev.res = cache[ev.rid].vals[ev.key]
         /\ BuiltFor(ev.rid, ev.key) = {ev.res}
         /\ \A g \in got : g[1] = ev.rid /\ g[2] = ev.key => g[3] = ev.res
    /\ \A i \in DOMAIN insts : \A n \in 1..Len(Deps(InstKey(i))) :
         InstRid(i) \in DOMAIN cache =>
            /\ Cardinality(BuiltFor(InstRid(i), Deps(InstKey(i))[n])) = 1
            /\ cache[InstRid(i)].vals[Deps(InstKey(i))[n]] # NoInst

\* The provider of Y asked for X and received the instance an earlier
\* lookup had stored.
C13_Witness ==
    /\ ev.op = "get" /\ ev.how = "cached" /\ ev.key \in DepTypes
    /\ \E t \in Tasks : frames[t] # <<>> /\ Top(frames[t]).key = "Nested"

\* C14: a request-scoped lookup of the connection made while handling a
\* request yields that request's own connection, also when another request
\* bound its connection in between.
C14_OwnConnection ==
    /\ \A t \in Tasks : \A n \in 1..Len(scopes[t]) :
         scopes[t][n].rid \in DOMAIN cache =>
            cache[scopes[t][n].rid].vals[ConnKey] \in {NoInst, Conn(scopes[t][1].rid)}
    /\ \A t \in Tasks :
         /\ ev.op = "get" /\ ev.key = ConnKey /\ ev.res # NoInst
         /\ scopes[t] # <<>> /\ ctx[t] = ev.rid /\ Top(scopes[t]).rid = ev.rid
         => ev.res = Conn(scopes[t][1].rid)

\* C15: once attach_injector(app, injector, enable_cleanup=True) has
\* returned, a context manager created in a scope opened afterwards is
\* cleaned up when the scope exits, whether the scope object was first used
\* before or after the attach call: the lookup that produces it enters it
\* and puts its exit on the exit stack that the close of the scope runs.
C15_CleanupAfterAttach ==
    attached /\ binder.options =>
        (ev.op = "get" /\ ev.how = "produced" /\ Registrable(ev.key) =>
             /\ insts[ev.res] = "entered"
             /\ ev.res \in Range(cache[ev.rid].stack))

\* C16: get_injector_instance(app) yields the attached injector, and fails
\* with InjectorNotAttached when none is attached: a lookup through Injected
\* fails with InjectorNotAttached exactly when no injector is attached to
\* the app, also inside a scope the middleware opened, and then nothing is
\* resolved, built or bound.
C16_InjectorNotAttached ==
    /\ ev.op = "get" => ((ev.err = "InjectorNotAttached") <=> ~attached)
    /\ ~attached => got = {} /\ insts = <<>> /\ binder.conn = NoInst
    /\ ~attached => \A t \in Tasks : frames[t] = <<>>

\* A lookup failed with InjectorNotAttached inside a scope opened by the
\* middleware.
C16_Witness ==
    /\ ev.op = "get" /\ ev.err = "InjectorNotAttached"
    /\ ev.rid # Unset /\ ev.rid \in DOMAIN cache

\* C17: a child task spawned inside a scope starts with the parent's id as
\* of fork time; a lookup returns the instance stored for the id its task
\* sees, the one every lookup in that scope returned, the parent's
\* included; and a step changes the published id of one task only, the one
\* that opens or leaves a scope itself (or is being started).
C17_ChildTaskPropagation ==
    /\ [](/\ ev.op = "fork" => ev.rid # Unset /\ ctx[ev.t] = ev.rid
          /\ ev.op = "get" /\ ev.res # NoInst =>
               /\ ctx[ev.t] = ev.rid
               /\ ev.res = cache[ev.rid].vals[ev.key]
               /\ \A g \in got : g[1] = ev.rid /\ g[2] = ev.key => g[3] = ev.res)
    /\ [][\A t \in Tasks : ctx'[t] # ctx[t]
            => scopes'[t] # scopes[t] \/ tstate[t] = "new"]_vars

\* A child task that opened no scope itself looked a type up and received
\* the instance stored in the scope of its parent, which is still open.
C17_Witness ==
    /\ ev.op = "get" /\ ev.how = "cached"
    /\ scopes[ev.t] = <<>>
    /\ \E p \in Tasks : p # ev.t /\ scopes[p] # <<>> /\ Top(scopes[p]).rid = ev.rid

\* C18: nested scopes.  When a task leaves a scope it opened inside another
\* scope of its own, the published id is the outer scope's id again and the
\* outer scope's cache entry is there with the values it had.
C18_NestedScopeRestoresOuter ==
    [][ev'.op = "exit" /\ Len(scopes[ev'.t]) > 1 =>
          LET t == ev'.t
              outer == scopes[t][Len(scopes[t]) - 1].rid
          IN  /\ ctx'[t] = outer
              /\ outer \in DOMAIN cache'
              /\ outer \in DOMAIN cache => cache'[outer] = cache[outer]]_vars

\* C19: teardown order.  While a resource of a scope is released the
\* scope's cache entry is present and its id is the one its closing task
\* publishes; the entry is removed only when every registered resource was
\* released, with the id still published; and the id is reset only after
\* the entry was removed.
C19_TeardownOrder ==
    /\ [][\A r \in Rids : relLog'[r] # relLog[r] /\ relLog'[r] # <<>> =>
             /\ r \in DOMAIN cache /\ r \in DOMAIN cache'
             /\ \E t \in Tasks :
                   /\ phase[t] # "run" /\ Top(scopes[t]).rid = r
                   /\ ctx[t] = r /\ ctx'[t] = r]_vars
    /\ [][\A r \in DOMAIN cache \ DOMAIN cache' :
             /\ cache[r].stack = <<>>
             /\ \E t \in Tasks :
                   /\ phase[t] # "run" /\ Top(scopes[t]).rid = r
                   /\ ctx'[t] = ctx[t]]_vars
    /\ [][\A t \in Tasks : phase[t] # "run" /\ ctx'[t] # ctx[t] =>
             Top(scopes[t]).rid \notin DOMAIN cache]_vars

\* C20: a lookup made under a published id that has no entry in the cache
\* fails with RequestScopeError, like a lookup with no id published.
C20_StaleIdFails ==
    ev.op = "get" /\ ev.rid # Unset /\ ev.rid \notin DOMAIN cache
        => ev.err = "RequestScopeError"

\* ------------------------------------------------------------ C21 .. C27
\* C21: with cleanup enabled, every resource a scope entered is exited
\* exactly once, at the close of the scope in which it was produced: a
\* resource that is entered and not yet exited belongs to a scope that has
\* not been left, and every release is made by the close of the resource's
\* own scope, of a resource that is entered and was not released before.
C21_ExitedExactlyOnce ==
    /\ [](options => \A i \in DOMAIN insts : insts[i] = "entered" =>
            \E t \in Tasks : \E n \in 1..Len(scopes[t]) :
                scopes[t][n].rid = InstRid(i))
    /\ [][\A r \in Rids : relLog'[r] # relLog[r] /\ relLog'[r] # <<>> =>
            LET i == Top(relLog'[r]) IN
            /\ InstRid(i) = r /\ insts[i] = "entered"
            /\ i \notin Range(relLog[r])
            /\ \E t \in Tasks : phase[t] # "run" /\ Top(scopes[t]).rid = r]_vars

\* C22: with cleanup enabled, every context-manager value a lookup returns
\* has been entered; a value whose entry failed during the lookup that
\* produced it is not returned by a later lookup of the type in the scope.
C22_ReturnedValuesAreEntered ==
    options /\ ev.op = "get" /\ ev.res # NoInst /\ Registrable(ev.key)
        => insts[ev.res] # "unentered"

\* C23: add_key with an identifier that is already in the cache fails with
\* DuplicateScope and leaves the cache, the existing inner mapping and its
\* values included, unchanged; with an identifier that is not in the cache
\* it creates an empty inner mapping and leaves the other entries alone.
C23_DuplicateScopeRejected ==
    [][ev'.op = "add_key" =>
          IF ev'.rid \in DOMAIN cache
          THEN ev'.err = "DuplicateScope" /\ cache' = cache
          ELSE /\ ev'.rid \in DOMAIN cache' /\ cache'[ev'.rid] = EmptyDict
               /\ \A r \in DOMAIN cache : cache'[r] = cache[r]]_vars

\* The lookup of t is blocked in future.result(), waiting for the
\* background thread to enter the async context manager.
Waiting(t) == frames[t] # <<>> /\ Top(frames[t]).wait = "submitted"

\* C24: entering an async resource through the background worker blocks
\* only the calling scope: while the lookup of one task waits for the
\* worker's result, every other task with an open scope on the same event
\* loop can take steps; and the waiting lookup eventually stops waiting.
C24_BridgeBlocksOnlyCaller ==
    /\ [](\A t, u \in Tasks :
            /\ t # u /\ Waiting(t)
            /\ tstate[t] = "coro" /\ tstate[u] = "coro" /\ scopes[u] # <<>>
            => Ready(u))
    /\ \A t \in Tasks : Waiting(t) ~> ~Waiting(t)

\* C25: the background worker is started lazily by the first async entry
\* that needs it, at most once whatever the interleaving of concurrent first
\* uses, and reused by every later entry: a start is made only by a lookup
\* that needs the worker and only while the worker is not started, an entry
\* is submitted only to the started worker, and no lookup fails because the
\* worker was started twice.
C25_WorkerStartedOnce ==
    /\ [](/\ ev.op = "start" => ev.how = "unstarted"
          /\ ev.op = "get" => ev.err # "RuntimeError"
          /\ \A t \in Tasks :
                frames[t] # <<>> /\ Top(frames[t]).wait \in {"submitted", "done", "failed"}
                    => thr = "alive")
    /\ [][thr' # thr => thr = "unstarted" /\ ev'.op = "start"]_vars

\* C26 as stated: an async entry made by a caller that is on a running event
\* loop runs inline, and the background worker is used only by callers that
\* are not on a running loop.
C26_InlineOnRunningLoop ==
    /\ ev.op = "get" /\ ev.via \in {"inline", "worker"}
         => (ev.via = "inline" <=> HasRunningLoop(ev.t))
    /\ \A t \in Tasks : frames[t] # <<>> /\ Top(frames[t]).wait # "no"
         => ~HasRunningLoop(t)

\* C26 amended: choice of bridge path.  With cleanup enabled an async
\* context manager that a lookup produces is entered on the background
\* worker exactly when the caller's thread has a running event loop, and
\* inline (on a new event loop in the caller's thread) exactly when it has
\* none; only callers on a running loop wait for or start the worker.
C26_WorkerOnRunningLoop ==
    /\ ev.op = "get" /\ ev.via \in {"inline", "worker"}
         => (ev.via = "worker" <=> HasRunningLoop(ev.t))
    /\ options /\ ev.op = "get" /\ ev.how = "produced" /\ Kind(ev.key) = "async"
         => ev.via \in {"inline", "worker"}
    /\ \A t \in Tasks : frames[t] # <<>> /\ Top(frames[t]).wait # "no"
         => HasRunningLoop(t)
    /\ ev.op = "start" => HasRunningLoop(ev.t)

\* A worker thread's lookup entered an async context manager inline while
\* the background worker, started by a coroutine's lookup, was alive.
C26_Witness ==
    /\ ev.op = "get" /\ ev.via = "inline" /\ tstate[ev.t] = "thread"
    /\ thr = "alive"

\* C27 as stated: at scope close every registered resource is exited with
\* no exception information.
C27_NoExceptionInfo ==
    ev.op = "release" => ev.err = "none"

\* C27 amended: a release never observes the failure of the unit of work,
\* whether it returned or raised; the first release of a close is
\* given no exception information, and a release is given exception
\* information only when an earlier release of the same close raised: it is
\* then given that cleanup failure.
C27_ReleaseSeesOnlyCleanupFailure ==
    ev.op = "release" =>
        /\ ev.err \in {"none", "CleanupError"}
        /\ relLog[ev.rid] # <<>> /\ Top(relLog[ev.rid]) = ev.res
        /\ Len(relLog[ev.rid]) = 1 => ev.err = "none"
        /\ ev.err = "CleanupError" =>
             \E j \in Range(relLog[ev.rid]) \ {ev.res} : insts[j] = "exitfailed"

\* The unit of work raised, and a release of the close was given the
\* failure of the release before it.
C27_Witness ==
    /\ ev.op = "release" /\ ev.how = "error" /\ ev.err = "CleanupError"
    /\ Len(relLog[ev.rid]) = 2

====
